---- MODULE Spec2Model ----
(***************************************************************************)
(* NetworkPage (src/unnamed/part_000): the relationship-network view of a  *)
(* person.  The component keeps five pieces of React state (person,        *)
(* relationships, allPeople, loading, error), runs one effect that loads   *)
(* them whenever the route parameter id changes, and one effect that       *)
(* builds the vis-network diagram from them.                               *)
(*                                                                         *)
(* One action is one event of the browser's event loop together with the   *)
(* render and the effects React runs for it: the root is made with         *)
(* createRoot (src/src/main.tsx:5), so the state updates a handler makes   *)
(* in one continuation are applied together in one render.                 *)
(***************************************************************************)
EXTENDS Naturals, Sequences, FiniteSets

\* ------------------------------------------------------------------ bounds
\* Load cycles (changes of the route parameter to an identifier) per behaviour.
MaxCycles == 2
\* Longest relationship list the API returns.
MaxRels == 2

\* ------------------------------------------------------------------- data
\* Person identifiers, in roster order.
IdOrder == <<"P1", "P2", "P3">>
Ids == {IdOrder[i] : i \in 1..Len(IdOrder)}
\* useParams gives undefined when the route carries no id.
NoId == "undefined"
\* The identifiers the route moves between where the load cycles interleave.
RouteIds == {"P1", "P2"}
\* null / undefined where the code holds an object or nothing.
Null == [null |-> TRUE]
\* setError's argument: null or one of the two messages.
NoError == "null"
NotFound == "person not found"
LoadFailed == "load failed"

Name(i) == CASE i = "P1" -> "Alice" [] i = "P2" -> "Bob" [] OTHER -> "Carol"
\* Only P1 carries an alternate name: alias?.[0] || "" meets both cases.
Alias(i) == IF i = "P1" THEN <<"Al">> ELSE <<>>
PersonOf(i) == [id |-> i, name |-> Name(i), alias |-> Alias(i)]

RelDescriptions == <<"father of", "ally of", "rival of", "spouse of">>
Rel(k, p1, p2) ==
  [id |-> k, person1Id |-> p1, person2Id |-> p2,
   description |-> RelDescriptions[((k - 1) % Len(RelDescriptions)) + 1]]
\* Every relationship list of at most MaxRels records; a record may name the
\* subject as either endpoint, as both or as neither.
RelLists ==
  UNION {{[k \in 1..n |-> Rel(k, f[k][1], f[k][2])] : f \in [1..n -> Ids \X Ids]}
         : n \in 0..MaxRels}
RosterOf(S) ==
  LET In(i) == i \in S
      ids == SelectSeq(IdOrder, In)
  IN  [k \in 1..Len(ids) |-> PersonOf(ids[k])]
Rosters == {RosterOf(S) : S \in SUBSET Ids}
\* What getPersonRelationships and getAllPersons answer in one behaviour.
Worlds == [rels : RelLists, roster : Rosters]
\* The answers used where the load cycles interleave: a counterpart met twice
\* and a relationship of P2 with itself, over the complete roster.
RaceWorlds ==
  {[rels |-> <<Rel(1, "P1", "P2")>> \o
             (IF MaxRels > 1 THEN <<Rel(2, "P2", "P2")>> ELSE <<>>),
    roster |-> RosterOf(Ids)],
   [rels |-> <<>>, roster |-> RosterOf(Ids \ {"P2"})]}

VARIABLES
  id,               \* useParams().id
  person,           \* useState<Person | null>
  relationships,    \* useState<Relationship[]>
  allPeople,        \* useState<Person[]>
  loading,          \* useState(true)
  error,            \* useState<string | null>
  ident,            \* which load cycle made the objects held in state
  cycles,           \* the loadData calls made so far, in order
  world,            \* the API's answers
  mounted,          \* the component is in the tree
  networkInstance,  \* networkInstance.current
  created,          \* Network objects made so far
  destroyed,        \* Network objects destroyed so far
  hasCleanup,       \* the graph effect's last run returned its cleanup
  lastEvent         \* what the last event was and what it asked of the router

vars == <<id, person, relationships, allPeople, loading, error, ident, cycles,
          world, mounted, networkInstance, created, destroyed, hasCleanup,
          lastEvent>>

\* ------------------------------------------------------------- projection
\* rel.person1Id === person.id ? rel.person2Id : rel.person1Id
TargetIsPerson2(rel, p) == rel.person2Id
TargetPersonId(rel, p) ==
  IF rel.person1Id = p.id THEN rel.person2Id ELSE rel.person1Id

\* allPeople.find(p => p.id === targetPersonId): the first match, or undefined.
Find(people, pid) ==
  LET hits == {k \in 1..Len(people) : people[k].id = pid}
  IN  IF hits = {} THEN Null
      ELSE people[CHOOSE k \in hits : \A j \in hits : k <= j]

\* alias?.[0] || ""
Title(p) == IF Len(p.alias) > 0 /\ p.alias[1] # "" THEN p.alias[1] ELSE ""

CenterNode(p) ==
  [id |-> p.id, label |-> p.name, title |-> Title(p), group |-> "center"]
RelatedNodeCopied(targetPerson) ==
  [id |-> targetPerson.id, label |-> targetPerson.name,
   title |-> Title(targetPerson), group |-> "center"]
RelatedNode(targetPerson) ==
  [id |-> targetPerson.id, label |-> targetPerson.name,
   title |-> Title(targetPerson), group |-> "related"]

\* nodes: the subject's node, then relationships.forEach pushes the node of
\* every counterpart the roster holds.
RECURSIVE PushRelated(_, _, _, _)
PushRelated(nodes, p, rels, people) ==
  IF rels = <<>> THEN nodes
  ELSE LET targetPerson == Find(people, TargetPersonId(Head(rels), p))
       IN  PushRelated(IF targetPerson # Null
                         THEN Append(nodes, RelatedNode(targetPerson))
                         ELSE nodes,
                       p, Tail(rels), people)
BuildNodes(p, rels, people) == PushRelated(<<CenterNode(p)>>, p, rels, people)

\* edges: relationships.map, one edge per relationship.
BuildEdges(p, rels) ==
  [k \in 1..Len(rels) |->
     [id |-> rels[k].id, from |-> p.id, to |-> TargetPersonId(rels[k], p),
      label |-> rels[k].description, arrows |-> "to"]]

\* getRelatedPeople: map to {relationship, person}, keep those with a person.
GetRelatedPeople(p, rels, people) ==
  LET items == [k \in 1..Len(rels) |->
                  [relationship |-> rels[k],
                   person |-> Find(people, TargetPersonId(rels[k], p))]]
      HasPerson(item) == item.person # Null
  IN  SelectSeq(items, HasPerson)

\* ------------------------------------------------------------------ render
\* if (loading) ... ; if (error || !person) ... ; otherwise the page.
ViewOf(l, e, p) ==
  IF l THEN "loading"
  ELSE IF e # NoError \/ p = Null THEN "error"
  ELSE "ready"
View == ViewOf(loading, error, person)
\* {error || "未找到该人物信息"}
ErrorText == IF error # NoError THEN error ELSE NotFound
\* The list the ready view renders.
relatedPeople == GetRelatedPeople(person, relationships, allPeople)

\* navigate(`/person/${id}`) and navigate("/")
PersonPath(pid) == <<"/person", pid>>
RootPath == <<"/">>

\* ------------------------------------------------------------ load cycles
\* One loadData call: the identifier it was started for, the three promises
\* handed to Promise.all, and whether the call has run to its end.
\* What Promise.all holds of a call: the values that have arrived, or that a
\* promise has rejected (it keeps no value then).
NewCycle(i) ==
  [id |-> i, rejected |-> FALSE, person |-> "pending", rels |-> "pending",
   roster |-> "pending", done |-> FALSE]
\* Promise.all: rejected as soon as one promise rejects, resolved once all are.
PromiseAll(c) ==
  IF c.rejected THEN "rejected"
  ELSE IF "pending" \in {c.person, c.rels, c.roster} THEN "pending"
  ELSE "resolved"
\* A call that has returned: nothing reads its promises again.
Returned(c) ==
  [id |-> c.id, rejected |-> FALSE, person |-> "pending", rels |-> "pending",
   roster |-> "pending", done |-> TRUE]
\* The load cycle of the identifier the route now carries (0: none).
CurGen == IF id = NoId THEN 0 ELSE Len(cycles)

\* The component's state as one record.
Cur ==
  [person |-> person, relationships |-> relationships, allPeople |-> allPeople,
   loading |-> loading, error |-> error, ident |-> ident]

\* catch: setError("加载数据失败"); finally: setLoading(false)
OnRejected == [Cur EXCEPT !.error = LoadFailed, !.loading = FALSE]
\* if (!personData) { setError("未找到该人物信息"); return; } finally: setLoading(false)
OnNullPersonSilent == [Cur EXCEPT !.loading = FALSE]
OnNullPerson == [Cur EXCEPT !.error = NotFound, !.loading = FALSE]
\* setPerson, setRelationships, setAllPeople; finally: setLoading(false)
OnLoaded(g) ==
  [Cur EXCEPT !.person = PersonOf(cycles[g].id),
              !.relationships = world.rels,
              !.allPeople = world.roster,
              !.ident = [person |-> g, relationships |-> g, allPeople |-> g],
              !.loading = FALSE]

\* ------------------------------------------------------------ graph effect
\* The cleanup the effect returns:
\* if (networkInstance.current) { networkInstance.current.destroy();
\*   networkInstance.current = null; }
CleanupForgets(inst, gone) == [inst |-> Null, gone |-> gone]
Cleanup(inst, gone) ==
  IF inst # Null THEN [inst |-> Null, gone |-> gone + 1]
  ELSE [inst |-> inst, gone |-> gone]

\* if (!person || !relationships || !allPeople || !networkRef.current) return;
\* (an array, even an empty one, is truthy)
GraphGuard(p, refPresent) == p # Null /\ refPresent

\* new Network(networkRef.current, {nodes, edges}, options), with the person
\* its click handler closes over.
NewNetwork(p, rels, people, refPresent) ==
  [person |-> p,
   nodes |-> BuildNodes(p, rels, people),
   edges |-> BuildEdges(p, rels),
   container |-> IF refPresent THEN "attached" ELSE "none"]

\* One run of the effect: the cleanup of its last run, then its body.
RunGraphEffect(inst, made, gone, cleanup, p, rels, people, refPresent) ==
  LET c == IF cleanup THEN Cleanup(inst, gone)
           ELSE [inst |-> inst, gone |-> gone]
  IN  IF GraphGuard(p, refPresent)
        THEN [inst |-> NewNetwork(p, rels, people, refPresent),
              made |-> made + 1, gone |-> c.gone, cleanup |-> TRUE]
        ELSE [inst |-> c.inst, made |-> made, gone |-> c.gone,
              cleanup |-> FALSE]

\* The mount element leaves the page with the ready view.
Detach(inst, view) ==
  IF inst # Null /\ view # "ready" /\ inst.container = "attached"
    THEN [inst EXCEPT !.container = "detached"]
    ELSE inst

\* The render of state S and the effects after it: the graph effect runs when
\* one of person, relationships, allPeople is a new object.
Commit(S) ==
  LET v == ViewOf(S.loading, S.error, S.person)
      g == IF S.ident # ident
             THEN RunGraphEffect(networkInstance, created, destroyed,
                                 hasCleanup, S.person, S.relationships,
                                 S.allPeople, v = "ready")
             ELSE [inst |-> networkInstance, made |-> created,
                   gone |-> destroyed, cleanup |-> hasCleanup]
  IN  /\ person' = S.person
      /\ relationships' = S.relationships
      /\ allPeople' = S.allPeople
      /\ loading' = S.loading
      /\ error' = S.error
      /\ ident' = S.ident
      /\ networkInstance' = Detach(g.inst, v)
      /\ created' = g.made
      /\ destroyed' = g.gone
      /\ hasCleanup' = g.cleanup

\* ----------------------------------------------------------- click handler
\* if (params.nodes.length > 0) { nodeId = params.nodes[0];
\*   if (nodeId !== person.id) navigate(`/person/${nodeId}`); }
NodeClickAlways(params, closed) ==
  IF Len(params) > 0 THEN <<PersonPath(params[1])>> ELSE <<>>
NodeClickRequests(params, closed) ==
  IF Len(params) > 0
    THEN IF params[1] # closed.id THEN <<PersonPath(params[1])>> ELSE <<>>
    ELSE <<>>
\* handlePersonClick
HandlePersonClick(targetPersonId) == <<PersonPath(targetPersonId)>>

SubjectId == IF person = Null THEN NoId ELSE person.id

\* An event that is neither a click nor the end of a load cycle.
NoEvent == [kind |-> "other"]

\* ------------------------------------------------------------------- state
\* The component after its first render and the effects of that render:
\* loadData has been called for the route's identifier (and has returned at
\* once when there is none), the graph effect has found no person.
InitWith(W, I) ==
  /\ world \in W
  /\ id \in I
  /\ person = Null
  /\ relationships = <<>>
  /\ allPeople = <<>>
  /\ loading = TRUE
  /\ error = NoError
  /\ ident = [person |-> 0, relationships |-> 0, allPeople |-> 0]
  /\ cycles = IF id = NoId THEN <<>> ELSE <<NewCycle(id)>>
  /\ mounted = TRUE
  /\ networkInstance = Null
  /\ created = 0
  /\ destroyed = 0
  /\ hasCleanup = FALSE
  /\ lastEvent = NoEvent

Init == InitWith(RaceWorlds, RouteIds \cup {NoId})

\* ----------------------------------------------------------------- actions
\* The route parameter changes.  The component renders once with the state it
\* has; then the load effect runs (deps [id]) and, when useNavigate handed
\* out a new function, the graph effect too; the state updates of loadData
\* give a second render.
SetId(newId, navChanged) ==
  /\ mounted
  /\ newId # id
  /\ newId # NoId => Len(cycles) < MaxCycles
  /\ LET g == IF navChanged
                THEN RunGraphEffect(networkInstance, created, destroyed,
                                    hasCleanup, person, relationships,
                                    allPeople, View = "ready")
                ELSE [inst |-> networkInstance, made |-> created,
                      gone |-> destroyed, cleanup |-> hasCleanup]
     IN  /\ id' = newId
         /\ created' = g.made
         /\ destroyed' = g.gone
         /\ hasCleanup' = g.cleanup
         /\ IF newId = NoId
              THEN \* if (!id) return;
                   /\ networkInstance' = g.inst
                   /\ UNCHANGED <<loading, error, cycles>>
              ELSE \* setLoading(true); setError(null); Promise.all([...])
                   /\ loading' = TRUE
                   /\ error' = NoError
                   /\ cycles' = Append(cycles, NewCycle(newId))
                   /\ networkInstance' = Detach(g.inst, "loading")
  /\ lastEvent' = NoEvent
  /\ UNCHANGED <<person, relationships, allPeople, ident, world, mounted>>

\* A promise of a load cycle settles.  One that settles after Promise.all
\* has rejected is not looked at again, and is left out.
Settle(g, field, result) ==
  /\ g \in 1..Len(cycles)
  /\ ~cycles[g].done
  /\ PromiseAll(cycles[g]) = "pending"
  /\ cycles[g][field] = "pending"
  /\ cycles' = [cycles EXCEPT ![g] =
                  IF result = "rejected"
                    THEN [NewCycle(@.id) EXCEPT !.rejected = TRUE]
                    ELSE [@ EXCEPT ![field] = result]]
  /\ lastEvent' = NoEvent
  /\ UNCHANGED <<id, person, relationships, allPeople, loading, error, ident,
                 world, mounted, networkInstance, created, destroyed,
                 hasCleanup>>
\* getPersonById(id): a person, null for an unknown id, or a rejection.
GetPersonById(g, result) ==
  /\ result \in {"found", "null", "rejected"}
  /\ Settle(g, "person", result)
\* getPersonRelationships(id)
GetPersonRelationships(g, result) ==
  /\ result \in {"ok", "rejected"}
  /\ Settle(g, "rels", result)
\* getAllPersons()
GetAllPersons(g, result) ==
  /\ result \in {"ok", "rejected"}
  /\ Settle(g, "roster", result)

\* What loadData writes once Promise.all has settled.
LoadResult(g) ==
  IF PromiseAll(cycles[g]) = "rejected" THEN OnRejected
  ELSE IF cycles[g].person = "null" THEN OnNullPerson
  ELSE OnLoaded(g)
LoadOutcome(g) ==
  IF PromiseAll(cycles[g]) = "rejected" THEN "rejected"
  ELSE IF cycles[g].person = "null" THEN "null"
  ELSE "loaded"

\* loadData resumes after its await.  React drops the state updates of a
\* component that is no longer mounted.
Continue(g) ==
  /\ g \in 1..Len(cycles)
  /\ ~cycles[g].done
  /\ PromiseAll(cycles[g]) # "pending"
  /\ cycles' = [cycles EXCEPT ![g] = Returned(@)]
  /\ lastEvent' = [kind |-> "done", gen |-> g, outcome |-> LoadOutcome(g),
                   applied |-> mounted]
  /\ IF mounted
       THEN Commit(LoadResult(g))
       ELSE UNCHANGED <<person, relationships, allPeople, loading, error,
                        ident, networkInstance, created, destroyed,
                        hasCleanup>>
  /\ UNCHANGED <<id, world, mounted>>

\* A click on the diagram: vis-network passes the ids of the selected nodes.
ClickNode(params) ==
  /\ mounted
  /\ networkInstance # Null
  /\ networkInstance.container = "attached"
  /\ \/ params = <<>>
     \/ \E k \in 1..Len(networkInstance.nodes) :
          params = <<networkInstance.nodes[k].id>>
  /\ lastEvent' = [kind |-> "click", surface |-> "node", params |-> params,
                   entry |-> 0, subject |-> SubjectId,
                   requests |-> NodeClickRequests(params, networkInstance.person)]
  /\ UNCHANGED <<id, person, relationships, allPeople, loading, error, ident,
                 cycles, world, mounted, networkInstance, created, destroyed,
                 hasCleanup>>

\* A click on an entry of the related-people list.
ClickSidebar(k) ==
  /\ mounted
  /\ View = "ready"
  /\ k \in 1..Len(relatedPeople)
  /\ lastEvent' = [kind |-> "click", surface |-> "sidebar",
                   params |-> <<>>, entry |-> k, subject |-> SubjectId,
                   requests |-> HandlePersonClick(relatedPeople[k].person.id)]
  /\ UNCHANGED <<id, person, relationships, allPeople, loading, error, ident,
                 cycles, world, mounted, networkInstance, created, destroyed,
                 hasCleanup>>

\* The back button of the error view and of the ready view.
ClickBack ==
  /\ mounted
  /\ View # "loading"
  /\ lastEvent' = [kind |-> "click", surface |-> "back", params |-> <<>>,
                   entry |-> 0, subject |-> SubjectId,
                   requests |-> <<RootPath>>]
  /\ UNCHANGED <<id, person, relationships, allPeople, loading, error, ident,
                 cycles, world, mounted, networkInstance, created, destroyed,
                 hasCleanup>>

\* The route leaves the page: React runs the cleanup of the effect's last run.
Unmount ==
  /\ mounted
  /\ mounted' = FALSE
  /\ LET c == IF hasCleanup THEN Cleanup(networkInstance, destroyed)
              ELSE [inst |-> networkInstance, gone |-> destroyed]
     IN  /\ networkInstance' = c.inst
         /\ destroyed' = c.gone
  /\ hasCleanup' = FALSE
  /\ lastEvent' = NoEvent
  /\ UNCHANGED <<id, person, relationships, allPeople, loading, error, ident,
                 cycles, world, created>>

Next ==
  \/ \E newId \in RouteIds \cup {NoId}, navChanged \in BOOLEAN : SetId(newId, navChanged)
  \/ \E g \in 1..MaxCycles, r \in {"found", "null", "rejected"} : GetPersonById(g, r)
  \/ \E g \in 1..MaxCycles, r \in {"ok", "rejected"} : GetPersonRelationships(g, r)
  \/ \E g \in 1..MaxCycles, r \in {"ok", "rejected"} : GetAllPersons(g, r)
  \/ \E g \in 1..MaxCycles : Continue(g)
  \/ \E params \in {<<>>} \cup {<<i>> : i \in Ids} : ClickNode(params)
  \/ \E k \in 1..MaxRels : ClickSidebar(k)
  \/ ClickBack
  \/ Unmount

Spec == Init /\ [][Next]_vars

\* The projection over every answer of the API: one load that succeeds, then
\* clicks on what it shows.
ProjInit == InitWith(Worlds, Ids)
ProjNext ==
  \/ GetPersonById(1, "found")
  \/ GetPersonRelationships(1, "ok")
  \/ GetAllPersons(1, "ok")
  \/ Continue(1)
  \/ \E params \in {<<>>} \cup {<<i>> : i \in Ids} : ClickNode(params)
  \/ \E k \in 1..MaxRels : ClickSidebar(k)
ProjSpec == ProjInit /\ [][ProjNext]_vars

\* ------------------------------------------------------------------ claims
\* The identifiers the roster resolves.
RosterIds == {allPeople[k].id : k \in 1..Len(allPeople)}
\* The counterpart of a relationship as the specification words it: the
\* endpoint that is not the subject; the subject itself when both endpoints
\* are the subject; either endpoint when neither is.
Counterparts(rel) ==
  IF {rel.person1Id, rel.person2Id} \ {person.id} = {} THEN {person.id}
  ELSE {rel.person1Id, rel.person2Id} \ {person.id}
Resolved(rel) == Counterparts(rel) \cap RosterIds # {}
EdgesOf(rel) ==
  {j \in 1..Len(networkInstance.edges) : networkInstance.edges[j].id = rel.id}
NodeIds ==
  {networkInstance.nodes[k].id : k \in 1..Len(networkInstance.nodes)}
CurrentDone ==
  /\ lastEvent.kind = "done"
  /\ lastEvent.applied
  /\ lastEvent.gen = CurGen

\* C1: once a newer identifier has been requested, the load cycle of an older
\* one writes none of subject, relationships, roster, loading flag, error flag.
C1_OnlyLatestCycleWrites ==
  [][\A g \in 1..Len(cycles) :
       (g < Len(cycles) /\ ~cycles[g].done /\ cycles'[g].done)
         => UNCHANGED <<person, relationships, allPeople, loading, error>>]_vars

\* C2: a relationship whose counterpart the roster does not hold gives no
\* edge and no sidebar entry, and every edge ends at a node of the diagram.
C2_AbsentCounterpartDropped ==
  networkInstance # Null =>
    /\ \A k \in 1..Len(relationships) :
         ~Resolved(relationships[k]) =>
           /\ EdgesOf(relationships[k]) = {}
           /\ \A j \in 1..Len(relatedPeople) :
                relatedPeople[j].relationship.id # relationships[k].id
    /\ \A j \in 1..Len(networkInstance.edges) :
         networkInstance.edges[j].to \in NodeIds

\* C3: every relationship whose counterpart the roster holds has exactly one
\* edge, with the relationship's id, from the subject to the counterpart,
\* labelled with its description; the edges keep the relationships' order.
C3_EdgePerResolvedRelationship ==
  networkInstance # Null =>
    /\ \A k \in 1..Len(relationships) :
         Resolved(relationships[k]) =>
           /\ Cardinality(EdgesOf(relationships[k])) = 1
           /\ \A j \in EdgesOf(relationships[k]) :
                /\ networkInstance.edges[j].from = person.id
                /\ networkInstance.edges[j].to \in Counterparts(relationships[k])
                /\ networkInstance.edges[j].label = relationships[k].description
    /\ \A k1, k2 \in 1..Len(relationships) :
         (k1 < k2 /\ Resolved(relationships[k1]) /\ Resolved(relationships[k2]))
           => \A j1 \in EdgesOf(relationships[k1]),
                 j2 \in EdgesOf(relationships[k2]) : j1 < j2
\* C3's case: two resolved relationships, the first naming the subject second.
C3_Witness ==
  /\ networkInstance # Null
  /\ Len(relationships) = 2
  /\ Resolved(relationships[1]) /\ Resolved(relationships[2])
  /\ relationships[1].person2Id = person.id
  /\ relationships[1].person1Id # person.id

\* C4: the node list has exactly one node classified "center", it carries the
\* subject's identifier and it is the first node.
C4_OneCenterNodeFirst ==
  networkInstance # Null =>
    /\ networkInstance.nodes[1].group = "center"
    /\ networkInstance.nodes[1].id = person.id
    /\ Cardinality({k \in 1..Len(networkInstance.nodes) :
                      networkInstance.nodes[k].group = "center"}) = 1
\* C4's case: a relationship of the subject with itself, resolved by the
\* roster, beside one that names the subject as neither endpoint.
C4_Witness ==
  /\ networkInstance # Null
  /\ person.id \in RosterIds
  /\ \E k \in 1..Len(relationships) :
       /\ relationships[k].person1Id = person.id
       /\ relationships[k].person2Id = person.id
  /\ \E k \in 1..Len(relationships) :
       /\ relationships[k].person1Id # person.id
       /\ relationships[k].person2Id # person.id
       /\ Resolved(relationships[k])

\* C5: the identifiers of the nodes handed to the diagram are pairwise
\* distinct.
C5_NodeIdsDistinct ==
  networkInstance # Null =>
    \A i, j \in 1..Len(networkInstance.nodes) :
      i # j => networkInstance.nodes[i].id # networkInstance.nodes[j].id

\* C6: a click that selects the subject's node, or no node, asks for no
\* navigation; one that selects another node asks for exactly one, to that
\* node; a click on a sidebar entry asks for exactly one, to its counterpart.
C6_ClickNavigation ==
  lastEvent.kind = "click" =>
    /\ lastEvent.surface = "node" =>
         IF lastEvent.params = <<>> THEN lastEvent.requests = <<>>
         ELSE IF lastEvent.params[1] = lastEvent.subject
           THEN lastEvent.requests = <<>>
           ELSE lastEvent.requests = <<PersonPath(lastEvent.params[1])>>
    /\ lastEvent.surface = "sidebar" =>
         lastEvent.requests =
           <<PersonPath(relatedPeople[lastEvent.entry].person.id)>>
\* C6's case: the subject's own node is clicked in the ready view.
C6_Witness ==
  /\ lastEvent.kind = "click"
  /\ lastEvent.surface = "node"
  /\ View = "ready"
  /\ lastEvent.params = <<person.id>>
  /\ lastEvent.requests = <<>>

\* C7: when the current identifier's load cycle ends with a null subject the
\* view is the error view with the not-found text, the mount element of the
\* diagram is not rendered, and the cycle's relationships and roster are not
\* stored.
C7_NullSubjectShowsNotFound ==
  (CurrentDone /\ lastEvent.outcome = "null") =>
    /\ View = "error"
    /\ ErrorText = NotFound
    /\ ident.relationships # lastEvent.gen
    /\ ident.allPeople # lastEvent.gen
    /\ networkInstance # Null => networkInstance.container # "attached"
\* C7's case: the subject of an earlier identifier is still held.
C7_Witness ==
  /\ CurrentDone
  /\ lastEvent.outcome = "null"
  /\ person # Null

\* C8: while the current identifier's load cycle is pending the loading flag
\* is set and the loading view is shown.
C8_LoadingWhilePending ==
  (/\ mounted
   /\ CurGen > 0
   /\ ~cycles[CurGen].done
   /\ PromiseAll(cycles[CurGen]) = "pending")
    => loading /\ View = "loading"

\* C9: when the current identifier's load cycle ends with every fetch
\* resolved and a subject, the view is ready, the error flag is clear and the
\* subject shown is that of the identifier.
C9_LoadedMeansReady ==
  (CurrentDone /\ lastEvent.outcome = "loaded") =>
    /\ View = "ready"
    /\ error = NoError
    /\ person # Null
    /\ person.id = id

\* C10: at most one diagram is alive, it is the one networkInstance holds, it
\* was made for a loaded subject on an existing mount element, and none is
\* alive once the view is unmounted.
C10_OneLiveDiagram ==
  /\ created - destroyed <= 1
  /\ (created - destroyed = 1) <=> (networkInstance # Null)
  /\ networkInstance # Null =>
       /\ networkInstance.person # Null
       /\ networkInstance.container # "none"
  /\ ~mounted => created = destroyed
\* C10's case: a second diagram has replaced the first and the view has then
\* been unmounted.
C10_Witness ==
  /\ ~mounted
  /\ created = 2
  /\ destroyed = 2

\* The ready view always shows a diagram bound to the subject in state.
ReadyHasDiagram ==
  (mounted /\ View = "ready") =>
    /\ networkInstance # Null
    /\ networkInstance.container = "attached"
    /\ networkInstance.person = person

====
